---- MODULE Spec2Model ----
(***************************************************************************)
(* A machine-level model of hotspot/src/os_cpu/windows_x86/vm/             *)
(* atomic_windows_x86.hpp: the inline x86 sequences of the !AMD64 build,   *)
(* the delegating entry points of the AMD64 build, and the callers that    *)
(* run them concurrently on one memory.                                    *)
(*                                                                         *)
(* Values are little-endian byte tuples (<<lo, ..., hi>>), so a jint is 4  *)
(* bytes, a jlong 8 bytes, and arithmetic wraps at the width by itself.    *)
(***************************************************************************)
EXTENDS Integers, Sequences, FiniteSets, TLC

\* Bounds of the model.
NThreads == 3
MaxCalls == 2

Threads == 1..NThreads

VARIABLES
  amd64,   \* TRUE: the AMD64 build (#ifdef AMD64); FALSE: the !AMD64 build
  mem,     \* byte-addressed memory: the shared slots, then one frame per thread
  mem0,    \* the memory as it was before the first call
  menu,    \* per thread: the calls it may issue
  left,    \* per thread: how many calls it may still issue
  pc,      \* per thread: 0 when not in a call, else the next instruction
  cur,     \* per thread: the call in flight
  reg,     \* per thread: eax, ebx, ecx, edx, edi
  loc,     \* per thread: the parameters and locals of the function entered
  stk,     \* per thread: the words pushed on the machine stack
  fpu,     \* per thread: the x87 register stack
  done     \* per thread: the calls that returned, oldest first

vars == <<amd64, mem, mem0, menu, left, pc, cur, reg, loc, stk, fpu, done>>

----------------------------------------------------------------------------
\* Memory layout.

\* Shared memory is bytes 0..15; thread t's frame is bytes 16t..16t+15.
HeapAddrs == 0..15
FrameBase(t) == 16 * t
MemAddrs == 0..(16 * (NThreads + 1) - 1)

\* The address a 4-byte pointer value holds.
AddrOf(p) == p[1] + 256 * p[2] + 65536 * p[3] + 16777216 * p[4]

\* The 4-byte pointer value of an address of this memory.
PtrTo(a) == <<a % 256, a \div 256, 0, 0>>

\* The w bytes at address a.
Rd(m, a, w) == [i \in 1..w |-> m[a + i - 1]]

\* m with the bytes of v written at address a, all at once.
RECURSIVE Wr(_, _, _)
Wr(m, a, v) == IF v = <<>> THEN m ELSE Wr([m EXCEPT ![a] = v[1]], a + 1, Tail(v))

----------------------------------------------------------------------------
\* The integer unit.

Zeros(w) == [i \in 1..w |-> 0]
Ones(w) == [i \in 1..w |-> 255]
One(w) == [i \in 1..w |-> IF i = 1 THEN 1 ELSE 0]

\* a + b + carry on equal-length byte tuples, the carry out of the top byte dropped.
RECURSIVE AddBytes(_, _, _)
AddBytes(a, b, carry) ==
  IF a = <<>> THEN <<>>
  ELSE LET s == a[1] + b[1] + carry
       IN <<s % 256>> \o AddBytes(Tail(a), Tail(b), s \div 256)

NotBytes(a) == [i \in 1..Len(a) |-> 255 - a[i]]

\* a - b, two's complement.
SubBytes(a, b) == AddBytes(a, NotBytes(b), 1)

\* (jint)v of a wider or equal value: its low 4 bytes.
Lo32(v) == SubSeq(v, 1, 4)

\* *(((jint*)&v) + 1): the second 4 bytes of an 8-byte value in memory.
Hi32(v) == SubSeq(v, 5, 8)

----------------------------------------------------------------------------
\* The x87 unit: fild converts a signed 64-bit integer to the 80-bit extended
\* format (sign, biased exponent, 64-bit significand with explicit top bit),
\* fistp converts back.  The significand is kept as 8 bytes, low byte first.

\* v shifted left by n bits (0 <= n <= 63), within 8 bytes.
ShiftLeft(v, n) ==
  LET q == n \div 8
      r == n % 8
  IN [i \in 1..8 |->
        LET a == IF i - q >= 1 THEN v[i - q] ELSE 0
            b == IF i - q - 1 >= 1 THEN v[i - q - 1] ELSE 0
        IN ((a * (2 ^ r)) % 256) + (b \div (2 ^ (8 - r)))]

\* v shifted right by n bits (0 <= n <= 63), within 8 bytes.
ShiftRight(v, n) ==
  LET q == n \div 8
      r == n % 8
  IN [i \in 1..8 |->
        LET a == IF i + q <= 8 THEN v[i + q] ELSE 0
            b == IF i + q + 1 <= 8 THEN v[i + q + 1] ELSE 0
        IN (a \div (2 ^ r)) + ((b * (2 ^ (8 - r))) % 256)]

\* The position (1..64) of the highest set bit of an 8-byte value, 0 if none.
HighBit(v) ==
  IF v = Zeros(8) THEN 0
  ELSE CHOOSE h \in 1..64 :
         /\ v[((h - 1) \div 8) + 1] \div (2 ^ ((h - 1) % 8)) = 1
         /\ \A k \in (((h - 1) \div 8) + 2)..8 : v[k] = 0

\* The real-indefinite value a masked invalid operation leaves in a register.
FpIndefinite ==
  [class |-> "nan", sign |-> 1, exp |-> 32767, sig |-> <<0, 0, 0, 0, 0, 0, 0, 192>>]

\* The integer-indefinite value fistp stores for what it cannot convert.
IntIndefinite == <<0, 0, 0, 0, 0, 0, 0, 128>>

\* The absolute value of the signed 64-bit integer v, as an unsigned one.
Magnitude(v) == IF v[8] >= 128 THEN SubBytes(Zeros(8), v) ELSE v

\* The extended-precision value with the given sign and the magnitude mag,
\* whose highest set bit is bit h: mag shifted up until that bit is bit 64.
Normal(sign, mag, h) ==
  IF h = 0
    THEN [class |-> "zero", sign |-> 0, exp |-> 0, sig |-> Zeros(8)]
    ELSE [class |-> "normal", sign |-> sign, exp |-> 16383 + h - 1,
          sig |-> ShiftLeft(mag, 64 - h)]

\* The extended-precision value of the signed 64-bit integer v (exact: the
\* significand has 64 bits).  The magnitude and its highest bit are each
\* worked out once.
IntToExt(v) ==
  CHOOSE x \in UNION {{Normal(v[8] \div 128, mag, h) : h \in {HighBit(mag)}} :
                        mag \in {Magnitude(v)}} : TRUE

\* The signed 64-bit integer of an extended-precision value that holds an
\* integer; the integer indefinite when it does not fit or is no number.
\* (Every value on the stack comes from fild, so no fraction is ever rounded.)
ExtToInt(x) ==
  IF x.class = "zero" THEN Zeros(8)
  ELSE IF x.class # "normal" \/ x.exp < 16383 \/ x.exp > 16383 + 63 THEN IntIndefinite
  ELSE LET mag == ShiftRight(x.sig, 63 - (x.exp - 16383))
       IN IF x.sign = 0
            THEN (IF mag[8] >= 128 THEN IntIndefinite ELSE mag)
            ELSE (IF mag[8] >= 128 /\ mag # IntIndefinite THEN IntIndefinite
                  ELSE SubBytes(Zeros(8), mag))

----------------------------------------------------------------------------
\* The functions of the !AMD64 build, instruction by instruction.  An operand
\* named var is a C variable of the enclosing function read from the asm block.

\* PlatformAdd<4> as a plain read, add and write back: no locked instruction.
PlatformAdd4Unlocked ==
  << [op |-> "mov", dst |-> "edx", var |-> "dest"],
     [op |-> "mov", dst |-> "eax", var |-> "add_value"],
     [op |-> "mov_ld", dst |-> "ecx", base |-> "edx", off |-> 0],
     [op |-> "add_rr", dst |-> "eax", src |-> "ecx"],
     [op |-> "mov_st", base |-> "edx", off |-> 0, src |-> "eax"] >>

\* PlatformAdd<4> that reads dest again for its result.
PlatformAdd4Reread ==
  << [op |-> "mov", dst |-> "edx", var |-> "dest"],
     [op |-> "mov", dst |-> "eax", var |-> "add_value"],
     [op |-> "lock_xadd", base |-> "edx", src |-> "eax"],
     [op |-> "mov_ld", dst |-> "eax", base |-> "edx", off |-> 0] >>

\* PlatformAdd<4> without the final add: what lock xadd fetched is returned.
PlatformAdd4FetchOnly ==
  << [op |-> "mov", dst |-> "edx", var |-> "dest"],
     [op |-> "mov", dst |-> "eax", var |-> "add_value"],
     [op |-> "mov_rr", dst |-> "ecx", src |-> "eax"],
     [op |-> "lock_xadd", base |-> "edx", src |-> "eax"] >>

\* PlatformAdd<4>::add_and_fetch; the result is left in eax.
PlatformAdd4 ==
  << [op |-> "mov", dst |-> "edx", var |-> "dest"],
     [op |-> "mov", dst |-> "eax", var |-> "add_value"],
     [op |-> "mov_rr", dst |-> "ecx", src |-> "eax"],
     [op |-> "lock_xadd", base |-> "edx", src |-> "eax"],
     [op |-> "add_rr", dst |-> "eax", src |-> "ecx"] >>

\* Atomic::inc(volatile jint*).
AtomicInc ==
  << [op |-> "mov", dst |-> "edx", var |-> "dest"],
     [op |-> "lock_add", base |-> "edx", imm |-> One(4)] >>

\* Atomic::inc_ptr, both overloads: inc((volatile jint*)dest).
AtomicIncPtr == AtomicInc

\* Atomic::dec with the instruction of Atomic::inc.
AtomicDecAdding ==
  << [op |-> "mov", dst |-> "edx", var |-> "dest"],
     [op |-> "lock_add", base |-> "edx", imm |-> One(4)] >>

\* Atomic::dec(volatile jint*).
AtomicDec ==
  << [op |-> "mov", dst |-> "edx", var |-> "dest"],
     [op |-> "lock_sub", base |-> "edx", imm |-> One(4)] >>

\* Atomic::dec_ptr, both overloads: dec((volatile jint*)dest).
AtomicDecPtr == AtomicDec

\* Atomic::xchg as a plain store: eax still holds the new value on return.
AtomicXchgAsStore ==
  << [op |-> "mov", dst |-> "eax", var |-> "exchange_value"],
     [op |-> "mov", dst |-> "ecx", var |-> "dest"],
     [op |-> "mov_st", base |-> "ecx", off |-> 0, src |-> "eax"] >>

\* Atomic::xchg that also writes the word after the slot.
AtomicXchgSpilling ==
  << [op |-> "mov", dst |-> "eax", var |-> "exchange_value"],
     [op |-> "mov", dst |-> "ecx", var |-> "dest"],
     [op |-> "xchg", reg |-> "eax", base |-> "ecx"],
     [op |-> "mov_st", base |-> "ecx", off |-> 4, src |-> "eax"] >>

\* Atomic::xchg as a load followed by a store.
AtomicXchgUnlocked ==
  << [op |-> "mov", dst |-> "eax", var |-> "exchange_value"],
     [op |-> "mov", dst |-> "ecx", var |-> "dest"],
     [op |-> "mov_ld", dst |-> "edx", base |-> "ecx", off |-> 0],
     [op |-> "mov_st", base |-> "ecx", off |-> 0, src |-> "eax"],
     [op |-> "mov_rr", dst |-> "eax", src |-> "edx"] >>

\* Atomic::xchg(jint, volatile jint*); the result is left in eax.
AtomicXchg ==
  << [op |-> "mov", dst |-> "eax", var |-> "exchange_value"],
     [op |-> "mov", dst |-> "ecx", var |-> "dest"],
     [op |-> "xchg", reg |-> "eax", base |-> "ecx"] >>

\* Atomic::xchg_ptr, both overloads: xchg((jint)exchange_value, (volatile jint*)dest).
AtomicXchgPtr ==
  << [op |-> "c_cast_jint", var |-> "exchange_value"] >> \o AtomicXchg

\* PlatformCmpxchg<1>::operator(); the result is left in al.
PlatformCmpxchg1 ==
  << [op |-> "mov", dst |-> "edx", var |-> "dest"],
     [op |-> "mov_b", dst |-> "ecx", var |-> "exchange_value"],
     [op |-> "mov_b", dst |-> "eax", var |-> "compare_value"],
     [op |-> "lock_cmpxchg_b", base |-> "edx", src |-> "ecx"] >>

\* PlatformCmpxchg<4> with the exchange and compare operands loaded into each
\* other's register.
PlatformCmpxchg4Swapped ==
  << [op |-> "mov", dst |-> "edx", var |-> "dest"],
     [op |-> "mov", dst |-> "ecx", var |-> "compare_value"],
     [op |-> "mov", dst |-> "eax", var |-> "exchange_value"],
     [op |-> "lock_cmpxchg", base |-> "edx", src |-> "ecx"] >>

\* PlatformCmpxchg<4> that compares with its order argument.
PlatformCmpxchg4OrderCompared ==
  << [op |-> "mov", dst |-> "edx", var |-> "dest"],
     [op |-> "mov", dst |-> "ecx", var |-> "exchange_value"],
     [op |-> "mov", dst |-> "eax", var |-> "order"],
     [op |-> "lock_cmpxchg", base |-> "edx", src |-> "ecx"] >>

\* PlatformCmpxchg<4>::operator(); the result is left in eax.
PlatformCmpxchg4 ==
  << [op |-> "mov", dst |-> "edx", var |-> "dest"],
     [op |-> "mov", dst |-> "ecx", var |-> "exchange_value"],
     [op |-> "mov", dst |-> "eax", var |-> "compare_value"],
     [op |-> "lock_cmpxchg", base |-> "edx", src |-> "ecx"] >>

\* PlatformCmpxchg<8> with the halves of the compare value loaded into each
\* other's register.
PlatformCmpxchg8CmpSwapped ==
  << [op |-> "c_lo", dst |-> "ex_lo", var |-> "exchange_value"],
     [op |-> "c_hi", dst |-> "ex_hi", var |-> "exchange_value"],
     [op |-> "c_lo", dst |-> "cmp_lo", var |-> "compare_value"],
     [op |-> "c_hi", dst |-> "cmp_hi", var |-> "compare_value"],
     [op |-> "push", src |-> "ebx"],
     [op |-> "push", src |-> "edi"],
     [op |-> "mov", dst |-> "eax", var |-> "cmp_hi"],
     [op |-> "mov", dst |-> "edx", var |-> "cmp_lo"],
     [op |-> "mov", dst |-> "edi", var |-> "dest"],
     [op |-> "mov", dst |-> "ebx", var |-> "ex_lo"],
     [op |-> "mov", dst |-> "ecx", var |-> "ex_hi"],
     [op |-> "lock_cmpxchg8b", base |-> "edi"],
     [op |-> "pop", dst |-> "edi"],
     [op |-> "pop", dst |-> "ebx"] >>

\* PlatformCmpxchg<8> with the halves of the exchange value loaded into each
\* other's register.
PlatformCmpxchg8ExSwapped ==
  << [op |-> "c_lo", dst |-> "ex_lo", var |-> "exchange_value"],
     [op |-> "c_hi", dst |-> "ex_hi", var |-> "exchange_value"],
     [op |-> "c_lo", dst |-> "cmp_lo", var |-> "compare_value"],
     [op |-> "c_hi", dst |-> "cmp_hi", var |-> "compare_value"],
     [op |-> "push", src |-> "ebx"],
     [op |-> "push", src |-> "edi"],
     [op |-> "mov", dst |-> "eax", var |-> "cmp_lo"],
     [op |-> "mov", dst |-> "edx", var |-> "cmp_hi"],
     [op |-> "mov", dst |-> "edi", var |-> "dest"],
     [op |-> "mov", dst |-> "ebx", var |-> "ex_hi"],
     [op |-> "mov", dst |-> "ecx", var |-> "ex_lo"],
     [op |-> "lock_cmpxchg8b", base |-> "edi"],
     [op |-> "pop", dst |-> "edi"],
     [op |-> "pop", dst |-> "ebx"] >>

\* PlatformCmpxchg<8> that pops in the order it pushed.
PlatformCmpxchg8PopsSwapped ==
  << [op |-> "c_lo", dst |-> "ex_lo", var |-> "exchange_value"],
     [op |-> "c_hi", dst |-> "ex_hi", var |-> "exchange_value"],
     [op |-> "c_lo", dst |-> "cmp_lo", var |-> "compare_value"],
     [op |-> "c_hi", dst |-> "cmp_hi", var |-> "compare_value"],
     [op |-> "push", src |-> "ebx"],
     [op |-> "push", src |-> "edi"],
     [op |-> "mov", dst |-> "eax", var |-> "cmp_lo"],
     [op |-> "mov", dst |-> "edx", var |-> "cmp_hi"],
     [op |-> "mov", dst |-> "edi", var |-> "dest"],
     [op |-> "mov", dst |-> "ebx", var |-> "ex_lo"],
     [op |-> "mov", dst |-> "ecx", var |-> "ex_hi"],
     [op |-> "lock_cmpxchg8b", base |-> "edi"],
     [op |-> "pop", dst |-> "ebx"],
     [op |-> "pop", dst |-> "edi"] >>

\* PlatformCmpxchg<8>::operator(); the result is left in edx:eax.
PlatformCmpxchg8 ==
  << [op |-> "c_lo", dst |-> "ex_lo", var |-> "exchange_value"],
     [op |-> "c_hi", dst |-> "ex_hi", var |-> "exchange_value"],
     [op |-> "c_lo", dst |-> "cmp_lo", var |-> "compare_value"],
     [op |-> "c_hi", dst |-> "cmp_hi", var |-> "compare_value"],
     [op |-> "push", src |-> "ebx"],
     [op |-> "push", src |-> "edi"],
     [op |-> "mov", dst |-> "eax", var |-> "cmp_lo"],
     [op |-> "mov", dst |-> "edx", var |-> "cmp_hi"],
     [op |-> "mov", dst |-> "edi", var |-> "dest"],
     [op |-> "mov", dst |-> "ebx", var |-> "ex_lo"],
     [op |-> "mov", dst |-> "ecx", var |-> "ex_hi"],
     [op |-> "lock_cmpxchg8b", base |-> "edi"],
     [op |-> "pop", dst |-> "edi"],
     [op |-> "pop", dst |-> "ebx"] >>

\* Atomic::load(const volatile jlong*) without mov eax, pdest: fistp writes
\* back to src and the local dest is returned as it was.
AtomicLoadJlongNoPdest ==
  << [op |-> "c_addr", dst |-> "pdest", of |-> "dest_local"],
     [op |-> "mov", dst |-> "eax", var |-> "src"],
     [op |-> "fild", base |-> "eax"],
     [op |-> "fistp", base |-> "eax"],
     [op |-> "c_return", of |-> "dest_local"] >>

\* Atomic::load(const volatile jlong*): through the x87 unit into the local
\* dest, which is then returned.
AtomicLoadJlong ==
  << [op |-> "c_addr", dst |-> "pdest", of |-> "dest_local"],
     [op |-> "mov", dst |-> "eax", var |-> "src"],
     [op |-> "fild", base |-> "eax"],
     [op |-> "mov", dst |-> "eax", var |-> "pdest"],
     [op |-> "fistp", base |-> "eax"],
     [op |-> "c_return", of |-> "dest_local"] >>

\* Atomic::store(jlong, volatile jlong*) as the two 4-byte moves a plain
\* *dest = store_value is on this build.
AtomicStoreJlongHalves ==
  << [op |-> "c_addr", dst |-> "src", of |-> "store_value"],
     [op |-> "mov", dst |-> "eax", var |-> "src"],
     [op |-> "mov", dst |-> "edx", var |-> "dest"],
     [op |-> "mov_ld", dst |-> "ecx", base |-> "eax", off |-> 0],
     [op |-> "mov_st", base |-> "edx", off |-> 0, src |-> "ecx"],
     [op |-> "mov_ld", dst |-> "ecx", base |-> "eax", off |-> 4],
     [op |-> "mov_st", base |-> "edx", off |-> 4, src |-> "ecx"] >>

\* Atomic::store(jlong, volatile jlong*): through the x87 unit from the
\* parameter store_value.
AtomicStoreJlong ==
  << [op |-> "c_addr", dst |-> "src", of |-> "store_value"],
     [op |-> "mov", dst |-> "eax", var |-> "src"],
     [op |-> "fild", base |-> "eax"],
     [op |-> "mov", dst |-> "eax", var |-> "dest"],
     [op |-> "fistp", base |-> "eax"] >>

\* Atomic::store(jlong, jlong*): Atomic::store(store_value, (volatile jlong*)dest).
AtomicStoreJlongPlain == AtomicStoreJlong

\* Atomic::store(jbyte|jshort|jint, [volatile] T*) and store_ptr: *dest = store_value.
AtomicStore(w) == << [op |-> "c_store", w |-> w] >>

----------------------------------------------------------------------------
\* The functions of the AMD64 build: plain 8-byte moves, and one call through
\* an os:: entry point for everything else.

\* Atomic::store(jlong, [volatile] jlong*): *dest = store_value.
AtomicStoreJlong64 == << [op |-> "c_store", w |-> 8] >>

\* Atomic::load(const volatile jlong*): return *src.
AtomicLoadJlong64 == << [op |-> "c_load", w |-> 8] >>

\* PlatformAdd<4>::add_and_fetch: add_using_helper<jint>(os::atomic_add_func, ...).
PlatformAdd4Stub == << [op |-> "call", fn |-> "atomic_add_func", w |-> 4] >>

\* PlatformAdd<8> through the entry point of PlatformAdd<4>.
PlatformAdd8StubOfAdd4 == << [op |-> "call", fn |-> "atomic_add_func", w |-> 4] >>

\* PlatformAdd<8>::add_and_fetch: add_using_helper<intptr_t>(os::atomic_add_ptr_func, ...).
PlatformAdd8Stub == << [op |-> "call", fn |-> "atomic_add_ptr_func", w |-> 8] >>

\* Atomic::inc(volatile jint*): (void)add(1, dest).
AtomicInc64 == << [op |-> "c_arg", var |-> "add_value", val |-> One(4)] >> \o PlatformAdd4Stub

\* Atomic::inc_ptr, both overloads: (void)add_ptr(1, dest).
AtomicIncPtr64 == << [op |-> "c_arg", var |-> "add_value", val |-> One(8)] >> \o PlatformAdd8Stub

\* Atomic::dec(volatile jint*): (void)add(-1, dest).
AtomicDec64 == << [op |-> "c_arg", var |-> "add_value", val |-> Ones(4)] >> \o PlatformAdd4Stub

\* Atomic::dec_ptr, both overloads: (void)add_ptr(-1, dest).
AtomicDecPtr64 == << [op |-> "c_arg", var |-> "add_value", val |-> Ones(8)] >> \o PlatformAdd8Stub

\* Atomic::xchg(jint, volatile jint*): (*os::atomic_xchg_func)(exchange_value, dest).
AtomicXchg64 == << [op |-> "call", fn |-> "atomic_xchg_func", w |-> 4] >>

\* Atomic::xchg_ptr, both overloads: (os::atomic_xchg_ptr_func)(exchange_value, dest).
AtomicXchgPtr64 == << [op |-> "call", fn |-> "atomic_xchg_ptr_func", w |-> 8] >>

\* DEFINE_STUB_CMPXCHG with the jint entry point for every width.
StubCmpxchgInt(w) == << [op |-> "call", w |-> 4, fn |-> "atomic_cmpxchg_func"] >>

\* DEFINE_STUB_CMPXCHG(ByteSize, StubType, StubName).
StubCmpxchg(w) ==
  << [op |-> "call", w |-> w,
      fn |-> IF w = 1 THEN "atomic_cmpxchg_byte_func"
             ELSE IF w = 4 THEN "atomic_cmpxchg_func" ELSE "atomic_cmpxchg_long_func"] >>

\* Atomic::load of a width the register moves at once (declared elsewhere): return *src.
AtomicLoad(w) == << [op |-> "c_load", w |-> w] >>

----------------------------------------------------------------------------
\* What one instruction does to the machine state s of the thread running it:
\* s.m the memory, s.r its registers, s.l its C variables, s.k its stack,
\* s.f its x87 stack, s.fp the base of its frame.

Mov(s, ins) == [s EXCEPT !.r[ins.dst] = s.l[ins.var]]

\* mov cl, var / mov al, var: only the low byte of the register changes.
MovB(s, ins) == [s EXCEPT !.r[ins.dst][1] = s.l[ins.var][1]]

MovRR(s, ins) == [s EXCEPT !.r[ins.dst] = s.r[ins.src]]

AddRR(s, ins) == [s EXCEPT !.r[ins.dst] = AddBytes(s.r[ins.dst], s.r[ins.src], 0)]

\* lock xadd dword ptr [base], src: memory gets the sum, src the old memory.
LockXadd(s, ins) ==
  LET a == AddrOf(s.r[ins.base])
      old == Rd(s.m, a, 4)
  IN [s EXCEPT !.m = Wr(s.m, a, AddBytes(old, s.r[ins.src], 0)),
               !.r[ins.src] = old]

\* lock add dword ptr [base], imm.
LockAdd(s, ins) ==
  LET a == AddrOf(s.r[ins.base])
  IN [s EXCEPT !.m = Wr(s.m, a, AddBytes(Rd(s.m, a, 4), ins.imm, 0))]

\* lock sub dword ptr [base], imm.
LockSub(s, ins) ==
  LET a == AddrOf(s.r[ins.base])
  IN [s EXCEPT !.m = Wr(s.m, a, SubBytes(Rd(s.m, a, 4), ins.imm))]

\* xchg reg, dword ptr [base]: locked by the instruction itself.
Xchg(s, ins) ==
  LET a == AddrOf(s.r[ins.base])
  IN [s EXCEPT !.m = Wr(s.m, a, s.r[ins.reg]),
               !.r[ins.reg] = Rd(s.m, a, 4)]

\* lock cmpxchg dword ptr [base], src: compares eax with memory.
LockCmpxchg(s, ins) ==
  LET a == AddrOf(s.r[ins.base])
      old == Rd(s.m, a, 4)
  IN IF old = s.r.eax
       THEN [s EXCEPT !.m = Wr(s.m, a, s.r[ins.src])]
       ELSE [s EXCEPT !.r.eax = old]

\* lock cmpxchg byte ptr [base], src: compares al with the byte in memory.
LockCmpxchgB(s, ins) ==
  LET a == AddrOf(s.r[ins.base])
      old == s.m[a]
  IN IF old = s.r.eax[1]
       THEN [s EXCEPT !.m = Wr(s.m, a, <<s.r[ins.src][1]>>)]
       ELSE [s EXCEPT !.r.eax[1] = old]

\* lock cmpxchg8b qword ptr [base]: compares edx:eax with memory, stores ecx:ebx.
LockCmpxchg8b(s, ins) ==
  LET a == AddrOf(s.r[ins.base])
      old == Rd(s.m, a, 8)
  IN IF old = s.r.eax \o s.r.edx
       THEN [s EXCEPT !.m = Wr(s.m, a, s.r.ebx \o s.r.ecx)]
       ELSE [s EXCEPT !.r.eax = Lo32(old), !.r.edx = Hi32(old)]

Push(s, ins) == [s EXCEPT !.k = Append(s.k, s.r[ins.src])]

Pop(s, ins) ==
  [s EXCEPT !.r[ins.dst] = s.k[Len(s.k)], !.k = SubSeq(s.k, 1, Len(s.k) - 1)]

\* fild qword ptr [base]: one 8-byte read, pushed on the x87 stack.
Fild(s, ins) ==
  LET x == IntToExt(Rd(s.m, AddrOf(s.r[ins.base]), 8))
  IN IF Len(s.f) < 8
       THEN [s EXCEPT !.f = <<x>> \o s.f]
       ELSE [s EXCEPT !.f = <<FpIndefinite>> \o SubSeq(s.f, 1, 7)]

\* fistp qword ptr [base]: the top of the x87 stack popped into one 8-byte write.
Fistp(s, ins) ==
  LET a == AddrOf(s.r[ins.base])
  IN IF s.f = <<>>
       THEN [s EXCEPT !.m = Wr(s.m, a, IntIndefinite)]
       ELSE [s EXCEPT !.m = Wr(s.m, a, ExtToInt(Head(s.f))), !.f = Tail(s.f)]

\* Where the frame keeps the variables whose address is taken.
FrameOffset(name) == IF name = "store_value" THEN 0 ELSE 8

\* T* p = &variable.
CAddr(s, ins) == [s EXCEPT !.l[ins.dst] = PtrTo(s.fp + FrameOffset(ins.of))]

\* jint x = (jint)v.
CLo(s, ins) == [s EXCEPT !.l[ins.dst] = Lo32(s.l[ins.var])]

\* jint x = *(((jint*)&v) + 1).
CHi(s, ins) == [s EXCEPT !.l[ins.dst] = Hi32(s.l[ins.var])]

\* (jint)v passed on as the argument.
CCastJint(s, ins) == [s EXCEPT !.l[ins.var] = Lo32(s.l[ins.var])]

\* A constant passed as the argument.
CArg(s, ins) == [s EXCEPT !.l[ins.var] = ins.val]

\* *dest = store_value, of a width the machine moves at once.
CStore(s, ins) == [s EXCEPT !.m = Wr(s.m, AddrOf(s.l.dest), SubSeq(s.l.store_value, 1, ins.w))]

\* return *src, of a width the machine moves at once.
CLoad(s, ins) == [s EXCEPT !.l.rv = Rd(s.m, AddrOf(s.l.src), ins.w)]

\* return dest, the local of Atomic::load(const volatile jlong*).
CReturn(s, ins) == [s EXCEPT !.l.rv = Rd(s.m, s.fp + FrameOffset(ins.of), 8)]

\* The os:: entry points (os::atomic_add_func and the like): each is one
\* atomic read-modify-write of its width that returns the sum (add) or the
\* previous value (xchg, cmpxchg).
OsAtomicAdd(s, w) ==
  LET a == AddrOf(s.l.dest)
      new == AddBytes(Rd(s.m, a, w), s.l.add_value, 0)
  IN [s EXCEPT !.m = Wr(s.m, a, new), !.l.rv = new]

OsAtomicXchg(s, w) ==
  LET a == AddrOf(s.l.dest)
  IN [s EXCEPT !.m = Wr(s.m, a, s.l.exchange_value), !.l.rv = Rd(s.m, a, w)]

OsAtomicCmpxchg(s, w) ==
  LET a == AddrOf(s.l.dest)
      old == Rd(s.m, a, w)
  IN IF old = s.l.compare_value
       THEN [s EXCEPT !.m = Wr(s.m, a, s.l.exchange_value), !.l.rv = old]
       ELSE [s EXCEPT !.l.rv = old]

\* return (*fn)(...): one call through the entry point.
CallStub(s, ins) ==
  IF ins.fn \in {"atomic_add_func", "atomic_add_ptr_func"} THEN OsAtomicAdd(s, ins.w)
  ELSE IF ins.fn \in {"atomic_xchg_func", "atomic_xchg_ptr_func"} THEN OsAtomicXchg(s, ins.w)
  ELSE OsAtomicCmpxchg(s, ins.w)

\* Instructions the functions above do not use; the faulty variants of them
\* that the checks below are tried against do.
\* mov reg, dword ptr [base + off].
MovLd(s, ins) == [s EXCEPT !.r[ins.dst] = Rd(s.m, AddrOf(s.r[ins.base]) + ins.off, 4)]

\* mov dword ptr [base + off], reg.
MovSt(s, ins) == [s EXCEPT !.m = Wr(s.m, AddrOf(s.r[ins.base]) + ins.off, s.r[ins.src])]

Exec(s, ins) ==
  CASE ins.op = "mov" -> Mov(s, ins)
    [] ins.op = "mov_ld" -> MovLd(s, ins)
    [] ins.op = "mov_st" -> MovSt(s, ins)
    [] ins.op = "mov_b" -> MovB(s, ins)
    [] ins.op = "mov_rr" -> MovRR(s, ins)
    [] ins.op = "add_rr" -> AddRR(s, ins)
    [] ins.op = "lock_xadd" -> LockXadd(s, ins)
    [] ins.op = "lock_add" -> LockAdd(s, ins)
    [] ins.op = "lock_sub" -> LockSub(s, ins)
    [] ins.op = "xchg" -> Xchg(s, ins)
    [] ins.op = "lock_cmpxchg" -> LockCmpxchg(s, ins)
    [] ins.op = "lock_cmpxchg_b" -> LockCmpxchgB(s, ins)
    [] ins.op = "lock_cmpxchg8b" -> LockCmpxchg8b(s, ins)
    [] ins.op = "push" -> Push(s, ins)
    [] ins.op = "pop" -> Pop(s, ins)
    [] ins.op = "fild" -> Fild(s, ins)
    [] ins.op = "fistp" -> Fistp(s, ins)
    [] ins.op = "c_addr" -> CAddr(s, ins)
    [] ins.op = "c_lo" -> CLo(s, ins)
    [] ins.op = "c_hi" -> CHi(s, ins)
    [] ins.op = "c_cast_jint" -> CCastJint(s, ins)
    [] ins.op = "c_arg" -> CArg(s, ins)
    [] ins.op = "c_store" -> CStore(s, ins)
    [] ins.op = "c_load" -> CLoad(s, ins)
    [] ins.op = "c_return" -> CReturn(s, ins)
    [] ins.op = "call" -> CallStub(s, ins)

\* Whether the instruction reads or writes shared memory (not the frame).
TouchesHeap(s, ins) ==
  CASE ins.op \in {"lock_xadd", "lock_add", "lock_sub", "xchg", "lock_cmpxchg",
                   "lock_cmpxchg_b", "lock_cmpxchg8b", "fild", "fistp",
                   "mov_ld", "mov_st"}
         -> AddrOf(s.r[ins.base]) \in HeapAddrs
    [] ins.op \in {"c_store", "call"} -> AddrOf(s.l.dest) \in HeapAddrs
    [] ins.op = "c_load" -> AddrOf(s.l.src) \in HeapAddrs
    [] OTHER -> FALSE

----------------------------------------------------------------------------
\* Calls.  A call is [op, w, a, c, dest]: the entry point, the width of the
\* slot, the value argument (store, add or exchange value), the compare value
\* and the address of the slot.

NoValue == <<>>

\* The function a call enters, chosen at build time by #ifdef AMD64 and by
\* the width of the operand.
CodeIn(wide, c) ==
  IF wide
    THEN CASE c.op \in {"store", "store_plain"} ->
                (IF c.w = 8 THEN AtomicStoreJlong64 ELSE AtomicStore(c.w))
           [] c.op = "store_ptr" -> AtomicStore(c.w)
           [] c.op = "load" -> (IF c.w = 8 THEN AtomicLoadJlong64 ELSE AtomicLoad(c.w))
           [] c.op = "add" -> (IF c.w = 8 THEN PlatformAdd8Stub ELSE PlatformAdd4Stub)
           [] c.op = "inc" -> AtomicInc64
           [] c.op = "inc_ptr" -> AtomicIncPtr64
           [] c.op = "dec" -> AtomicDec64
           [] c.op = "dec_ptr" -> AtomicDecPtr64
           [] c.op = "xchg" -> AtomicXchg64
           [] c.op = "xchg_ptr" -> AtomicXchgPtr64
           [] c.op = "cmpxchg" -> StubCmpxchg(c.w)
    ELSE CASE c.op = "store" -> (IF c.w = 8 THEN AtomicStoreJlong ELSE AtomicStore(c.w))
           [] c.op = "store_plain" ->
                (IF c.w = 8 THEN AtomicStoreJlongPlain ELSE AtomicStore(c.w))
           [] c.op = "store_ptr" -> AtomicStore(c.w)
           [] c.op = "load" -> (IF c.w = 8 THEN AtomicLoadJlong ELSE AtomicLoad(c.w))
           [] c.op = "add" -> PlatformAdd4
           [] c.op = "inc" -> AtomicInc
           [] c.op = "inc_ptr" -> AtomicIncPtr
           [] c.op = "dec" -> AtomicDec
           [] c.op = "dec_ptr" -> AtomicDecPtr
           [] c.op = "xchg" -> AtomicXchg
           [] c.op = "xchg_ptr" -> AtomicXchgPtr
           [] c.op = "cmpxchg" ->
                (IF c.w = 1 THEN PlatformCmpxchg1
                 ELSE IF c.w = 4 THEN PlatformCmpxchg4 ELSE PlatformCmpxchg8)

\* The body of the function a call enters, in the build at hand.
Code(c) == CodeIn(amd64, c)

\* The width of a pointer in the build.
PtrWidth(wide) == IF wide THEN 8 ELSE 4

\* The value the function hands back: nothing for the void functions; the C
\* return value where there is a return statement; else what the asm block
\* left in al, eax or edx:eax (warning 4035 is disabled for that).
RetValIn(wide, c, s) ==
  IF c.op \in {"store", "store_plain", "store_ptr", "inc", "inc_ptr", "dec", "dec_ptr"}
    THEN NoValue
  ELSE IF wide \/ c.op = "load" THEN s.l.rv
  ELSE IF c.op = "cmpxchg" /\ c.w = 1 THEN <<s.r.eax[1]>>
  ELSE IF c.op = "cmpxchg" /\ c.w = 8 THEN s.r.eax \o s.r.edx
  ELSE s.r.eax

\* The value handed back in the build at hand.
RetVal(c, s) == RetValIn(amd64, c, s)

\* The values of enum cmpxchg_memory_order: memory_order_relaxed and
\* memory_order_conservative.
CmpxchgOrders == {<<0, 0, 0, 0>>, <<8, 0, 0, 0>>}

\* The order argument of a call: memory_order_conservative when the caller
\* leaves it out.
OrderOf(c) ==
  IF c.op # "cmpxchg" THEN NoValue
  ELSE IF "order" \in DOMAIN c THEN c.order ELSE <<8, 0, 0, 0>>

Locals0 ==
  [dest |-> NoValue, src |-> NoValue, pdest |-> NoValue, add_value |-> NoValue,
   exchange_value |-> NoValue, compare_value |-> NoValue, store_value |-> NoValue,
   ex_lo |-> NoValue, ex_hi |-> NoValue, cmp_lo |-> NoValue, cmp_hi |-> NoValue,
   order |-> NoValue, rv |-> NoValue]

\* The parameters of the function as the call passes them.
Params(c) ==
  CASE c.op \in {"store", "store_plain", "store_ptr"} ->
         [Locals0 EXCEPT !.dest = PtrTo(c.dest), !.store_value = c.a]
    [] c.op = "load" -> [Locals0 EXCEPT !.src = PtrTo(c.dest)]
    [] c.op = "add" -> [Locals0 EXCEPT !.dest = PtrTo(c.dest), !.add_value = c.a]
    [] c.op \in {"inc", "inc_ptr", "dec", "dec_ptr"} -> [Locals0 EXCEPT !.dest = PtrTo(c.dest)]
    [] c.op \in {"xchg", "xchg_ptr"} ->
         [Locals0 EXCEPT !.dest = PtrTo(c.dest), !.exchange_value = c.a]
    [] c.op = "cmpxchg" ->
         [Locals0 EXCEPT !.dest = PtrTo(c.dest), !.exchange_value = c.a,
                         !.compare_value = c.c, !.order = OrderOf(c)]

\* Whether the function takes the address of its parameter store_value, which
\* therefore lives in the frame.
StoreValueInFrameIn(wide, c) == ~wide /\ c.op \in {"store", "store_plain"} /\ c.w = 8

\* The same, in the build at hand.
StoreValueInFrame(c) == StoreValueInFrameIn(amd64, c)

NoCall == [op |-> "none"]

Regs0(t) ==
  [eax |-> Zeros(4), ecx |-> Zeros(4), edx |-> Zeros(4),
   ebx |-> <<t, 187, 187, 187>>, edi |-> <<t, 221, 221, 221>>]

Machine(t) ==
  [m |-> mem, r |-> reg[t], l |-> loc[t], k |-> stk[t], f |-> fpu[t], fp |-> FrameBase(t)]

----------------------------------------------------------------------------
\* The actions: a thread enters a function, runs its next instruction, returns.

Call(t) ==
  /\ pc[t] = 0
  /\ left[t] > 0
  /\ \E c \in menu[t] :
       /\ cur' = [cur EXCEPT ![t] =
                    [op |-> c.op, w |-> c.w, a |-> c.a, c |-> c.c, dest |-> c.dest,
                     order |-> OrderOf(c),
                     pre |-> Rd(mem, c.dest, c.w),
                     bef |-> [u \in Threads |-> Len(done[u])],
                     steps |-> 0, accs |-> 0]]
       /\ loc' = [loc EXCEPT ![t] = Params(c)]
       /\ mem' = IF StoreValueInFrame(c) THEN Wr(mem, FrameBase(t), c.a) ELSE mem
  /\ pc' = [pc EXCEPT ![t] = 1]
  /\ left' = [left EXCEPT ![t] = @ - 1]
  /\ UNCHANGED <<amd64, mem0, menu, reg, stk, fpu, done>>

\* Step under a lock on the slot: a thread that has begun its instructions
\* holds it, and the others wait until it has returned.
StepWaiting(t) ==
  /\ pc[t] > 0
  /\ pc[t] <= Len(Code(cur[t]))
  /\ \A u \in Threads \ {t} : pc[u] <= 1
  /\ LET ins == Code(cur[t])[pc[t]]
         s == Machine(t)
         n == Exec(s, ins)
     IN /\ mem' = n.m
        /\ reg' = [reg EXCEPT ![t] = n.r]
        /\ loc' = [loc EXCEPT ![t] = n.l]
        /\ stk' = [stk EXCEPT ![t] = n.k]
        /\ fpu' = [fpu EXCEPT ![t] = n.f]
        /\ cur' = [cur EXCEPT ![t].steps = @ + 1,
                              ![t].accs = @ + (IF TouchesHeap(s, ins) THEN 1 ELSE 0)]
  /\ pc' = [pc EXCEPT ![t] = @ + 1]
  /\ UNCHANGED <<amd64, mem0, menu, left, done>>

Step(t) ==
  /\ pc[t] > 0
  /\ pc[t] <= Len(Code(cur[t]))
  /\ LET ins == Code(cur[t])[pc[t]]
         s == Machine(t)
         n == Exec(s, ins)
     IN /\ mem' = n.m
        /\ reg' = [reg EXCEPT ![t] = n.r]
        /\ loc' = [loc EXCEPT ![t] = n.l]
        /\ stk' = [stk EXCEPT ![t] = n.k]
        /\ fpu' = [fpu EXCEPT ![t] = n.f]
        /\ cur' = [cur EXCEPT ![t].steps = @ + 1,
                              ![t].accs = @ + (IF TouchesHeap(s, ins) THEN 1 ELSE 0)]
  /\ pc' = [pc EXCEPT ![t] = @ + 1]
  /\ UNCHANGED <<amd64, mem0, menu, left, done>>

Return(t) ==
  /\ pc[t] > 0
  /\ pc[t] = Len(Code(cur[t])) + 1
  /\ done' = [done EXCEPT ![t] = Append(@,
                [op |-> cur[t].op, w |-> cur[t].w, a |-> cur[t].a, c |-> cur[t].c,
                 dest |-> cur[t].dest, order |-> cur[t].order,
                 pre |-> cur[t].pre, bef |-> cur[t].bef,
                 steps |-> cur[t].steps, accs |-> cur[t].accs,
                 ret |-> RetVal(cur[t], Machine(t)),
                 post |-> Rd(mem, cur[t].dest, cur[t].w)])]
  /\ pc' = [pc EXCEPT ![t] = 0]
  /\ cur' = [cur EXCEPT ![t] = NoCall]
  /\ UNCHANGED <<amd64, mem, mem0, menu, left, reg, loc, stk, fpu>>

Next == \E t \in Threads : Call(t) \/ Step(t) \/ Return(t)

\* The state before the first call: the build, the memory, and what each
\* thread is going to do.
InitWith(wide, m0, mn, lf) ==
  /\ amd64 = wide
  /\ mem = m0
  /\ mem0 = m0
  /\ menu = mn
  /\ left = lf
  /\ pc = [t \in Threads |-> 0]
  /\ cur = [t \in Threads |-> NoCall]
  /\ reg = [t \in Threads |-> Regs0(t)]
  /\ loc = [t \in Threads |-> Locals0]
  /\ stk = [t \in Threads |-> <<>>]
  /\ fpu = [t \in Threads |-> <<>>]
  /\ done = [t \in Threads |-> <<>>]

\* The memory with the 8 bytes v in the slot at address 0 and zeros elsewhere.
MemWith(v) == [x \in MemAddrs |-> IF x < 8 THEN v[x + 1] ELSE 0]

\* The slot every call of the workloads below addresses.
Slot == 0

\* One caller: thread 1 issues up to MaxCalls calls, one after the other.
Alone(calls) == [t \in Threads |-> IF t = 1 THEN calls ELSE {}]
AloneLeft == [t \in Threads |-> IF t = 1 THEN MaxCalls ELSE 0]

\* The returned calls, as <<thread, index>> pairs.
Returned == {tk \in Threads \X (1..MaxCalls) : tk[2] <= Len(done[tk[1]])}
Rec(tk) == done[tk[1]][tk[2]]

----------------------------------------------------------------------------
\* Compare-and-exchange, one caller.

CasValues(w) ==
  IF w = 1 THEN {<<10>>, <<20>>}
  ELSE IF w = 4 THEN {<<10, 0, 0, 0>>, <<20, 0, 0, 0>>}
  ELSE {<<10, 0, 0, 0, 0, 0, 0, 0>>, <<20, 0, 0, 0, 0, 0, 0, 0>>, <<10, 0, 0, 0, 1, 0, 0, 0>>}

CasCalls ==
  {[op |-> "cmpxchg", w |-> w, a |-> e, c |-> c, dest |-> Slot] :
     w \in {1}, e \in CasValues(1), c \in CasValues(1)}
  \cup {[op |-> "cmpxchg", w |-> w, a |-> e, c |-> c, dest |-> Slot] :
     w \in {4}, e \in CasValues(4), c \in CasValues(4)}
  \cup {[op |-> "cmpxchg", w |-> w, a |-> e, c |-> c, dest |-> Slot] :
     w \in {8}, e \in CasValues(8), c \in CasValues(8)}

CasInits == CasValues(8) \cup {<<10, 7, 7, 7, 9, 9, 9, 9>>}

InitCas ==
  \E wide \in BOOLEAN, v \in CasInits :
    InitWith(wide, MemWith(v), Alone(CasCalls), AloneLeft)

SpecCas == InitCas /\ [][Next]_vars

\* C1: a cmpxchg by a lone caller returns the value the slot held before the
\* call; the slot then holds the exchange value if that value equalled the
\* compare value and is unchanged otherwise; this for the widths 1, 4 and 8 in
\* both builds.  In particular cmpxchg(20, dest, 10) on a slot holding 10,
\* issued twice, returns 10 and then 20, and leaves 20 both times.
CmpxchgPostcondition ==
  /\ \A tk \in Returned :
       LET r == Rec(tk)
       IN r.op = "cmpxchg" =>
            /\ r.ret = r.pre
            /\ r.post = (IF r.pre = r.c THEN r.a ELSE r.pre)
  /\ \A t \in Threads :
       (/\ Len(done[t]) >= 2
        /\ done[t][1].w = 4 /\ done[t][2].w = 4
        /\ done[t][1].pre = <<10, 0, 0, 0>>
        /\ \A i \in {1, 2} : done[t][i].a = <<20, 0, 0, 0>> /\ done[t][i].c = <<10, 0, 0, 0>>)
       => /\ done[t][1].ret = <<10, 0, 0, 0>>
          /\ done[t][1].post = <<20, 0, 0, 0>>
          /\ done[t][2].ret = <<20, 0, 0, 0>>
          /\ done[t][2].post = <<20, 0, 0, 0>>

\* C1 happens: in the !AMD64 build cmpxchg(20, dest, 10) has succeeded on a
\* 4-byte slot holding 10 and the same call, issued again, has returned 20.
CmpxchgRepeated ==
  /\ ~amd64
  /\ Len(done[1]) = 2
  /\ done[1][1].w = 4 /\ done[1][1].pre = <<10, 0, 0, 0>>
  /\ done[1][1].a = <<20, 0, 0, 0>> /\ done[1][1].c = <<10, 0, 0, 0>>
  /\ done[1][2].w = 4 /\ done[1][2].a = <<20, 0, 0, 0>> /\ done[1][2].c = <<10, 0, 0, 0>>
  /\ done[1][2].ret = <<20, 0, 0, 0>>

----------------------------------------------------------------------------
\* Concurrent add(1, dest).

\* The w-byte value of a small natural number.
Num(n, w) == [i \in 1..w |-> IF i = 1 THEN n % 256 ELSE IF i = 2 THEN n \div 256 ELSE 0]

\* The first n threads each issue one add(1, dest); the slot starts at 0.
\* The AMD64 build has the 4-byte and the pointer-width add.
InitAdd ==
  \E wide \in BOOLEAN, w \in {4, 8}, n \in 1..NThreads :
    /\ w = 8 => wide
    /\ InitWith(wide, MemWith(Zeros(8)),
                [t \in Threads |-> {[op |-> "add", w |-> w, a |-> One(w), c |-> NoValue,
                                     dest |-> Slot]}],
                [t \in Threads |-> IF t <= n THEN 1 ELSE 0])

SpecAdd == InitAdd /\ [][Next]_vars

\* No thread is in a call or has one left to issue.
AllQuiet == \A t \in Threads : pc[t] = 0 /\ left[t] = 0

Callers == {t \in Threads : done[t] # <<>>}

\* C2: when N concurrent callers have each performed add(1, dest) on a slot
\* that started at 0, the slot holds N, whatever the interleaving.
NoLostUpdates ==
  AllQuiet =>
    \A t \in Callers :
      Rd(mem, Slot, done[t][1].w) = Num(Cardinality(Callers), done[t][1].w)

\* C2 happens: in the !AMD64 build every thread has added 1, each call entered
\* before any other had returned, and the slot holds the number of threads.
AllAddedConcurrently ==
  /\ ~amd64
  /\ AllQuiet
  /\ Callers = Threads
  /\ \A t \in Threads : \A u \in Threads : done[t][1].bef[u] = 0
  /\ Rd(mem, Slot, 4) = Num(NThreads, 4)

----------------------------------------------------------------------------
\* Two concurrent cmpxchg with the same compare value X, the slot holding X,
\* in the !AMD64 build.

Cas2Values(w) ==
  IF w = 4 THEN {<<10, 0, 0, 0>>, <<20, 0, 0, 0>>, <<30, 0, 0, 0>>}
  ELSE {<<10, 0, 0, 0, 1, 0, 0, 0>>, <<20, 0, 0, 0, 2, 0, 0, 0>>, <<30, 0, 0, 0, 3, 0, 0, 0>>}

InitCas2 ==
  \E w \in {4, 8} : \E x \in Cas2Values(w) :
    InitWith(FALSE, MemWith(x \o Zeros(8 - w)),
             [t \in Threads |->
                IF t \in {1, 2}
                  THEN {[op |-> "cmpxchg", w |-> w, a |-> e, c |-> x, dest |-> Slot] :
                          e \in Cas2Values(w)}
                  ELSE {}],
             [t \in Threads |-> IF t \in {1, 2} THEN 1 ELSE 0])

SpecCas2 == InitCas2 /\ [][Next]_vars

\* Both calls returned; r and q are the two calls in either order.
AtMostOneWins(r, q) ==
  /\ ~(r.ret = r.c /\ q.ret = q.c)
  /\ r.ret = r.c => q.ret = r.a

\* C3 as stated: for any exchange values, at most one of the two calls
\* returns X, and the other returns the value the successful call stored.
CasExclusiveAnyExchange ==
  (done[1] # <<>> /\ done[2] # <<>>) =>
    /\ AtMostOneWins(done[1][1], done[2][1])
    /\ AtMostOneWins(done[2][1], done[1][1])

\* C3 amended: when both exchange values differ from X, at most one of the two
\* calls returns X, and the other returns the value the successful call stored.
CasExclusiveFreshExchange ==
  (/\ done[1] # <<>> /\ done[2] # <<>>
   /\ done[1][1].a # done[1][1].c
   /\ done[2][1].a # done[2][1].c) =>
    /\ AtMostOneWins(done[1][1], done[2][1])
    /\ AtMostOneWins(done[2][1], done[1][1])

\* C3 happens: in the !AMD64 build two overlapping 8-byte cmpxchg with exchange
\* values other than X have returned; thread 2 won and thread 1 saw its value.
CasLoserSawWinner ==
  /\ ~amd64
  /\ done[1] # <<>> /\ done[2] # <<>>
  /\ done[1][1].w = 8
  /\ done[1][1].bef[2] = 0 /\ done[2][1].bef[1] = 0
  /\ done[1][1].a # done[1][1].c /\ done[2][1].a # done[2][1].c
  /\ done[1][1].a # done[2][1].a
  /\ done[2][1].ret = done[2][1].c
  /\ done[1][1].ret = done[2][1].a

----------------------------------------------------------------------------
\* 8-byte store, load and cmpxchg racing on one slot in the !AMD64 build.

\* 8-byte values no two of which share a half.
Q(n) == <<n, n, n, n, n + 1, n + 1, n + 1, n + 1>>

\* One call each: thread 1 stores (either overload), thread 2 loads or
\* compares-and-exchanges, thread 3 does any of the three.
Jlong64Menu(t) ==
  LET call(op, a, c) == [op |-> op, w |-> 8, a |-> a, c |-> c, dest |-> Slot]
  IN IF t = 1 THEN {call("store", Q(3), NoValue), call("store_plain", Q(5), NoValue)}
     ELSE IF t = 2 THEN {call("load", NoValue, NoValue), call("cmpxchg", Q(7), Q(1)),
                         call("cmpxchg", Q(7), Q(3))}
     ELSE IF t = 3 THEN {call("load", NoValue, NoValue), call("store", Q(9), NoValue),
                         call("cmpxchg", Q(11), Q(5))}
     ELSE {}

InitJlong ==
  InitWith(FALSE, MemWith(Q(1)),
           [t \in Threads |-> Jlong64Menu(t)],
           [t \in Threads |-> IF t <= 3 THEN 1 ELSE 0])

SpecJlong == InitJlong /\ [][Next]_vars

\* The values written whole so far: the initial one, the value of every store
\* entered, and the exchange value of every cmpxchg in flight or successful.
WholeValues ==
  {Rd(mem0, Slot, 8)}
  \cup {cur[t].a : t \in {u \in Threads : cur[u].op \in {"store", "store_plain", "cmpxchg"}}}
  \cup {Rec(tk).a : tk \in {x \in Returned :
                              \/ Rec(x).op \in {"store", "store_plain"}
                              \/ Rec(x).op = "cmpxchg" /\ Rec(x).ret = Rec(x).c}}

\* C4: in the !AMD64 build, whatever the interleaving of 8-byte stores (both
\* overloads), loads and cmpxchg on one slot, the slot always holds, and every
\* load and cmpxchg returns, a value written whole: never the low half of one
\* write with the high half of another.
NoTornValues ==
  /\ Rd(mem, Slot, 8) \in WholeValues
  /\ \A tk \in Returned :
       Rec(tk).op \in {"load", "cmpxchg"} => Rec(tk).ret \in WholeValues

\* C4 happens: a load that overlapped the store of thread 1 returned the
\* value stored, and a cmpxchg that overlapped both has returned.
LoadSawConcurrentStore ==
  /\ done[1] # <<>> /\ done[2] # <<>> /\ done[3] # <<>>
  /\ done[1][1].op = "store" /\ done[1][1].bef[3] = 0
  /\ done[3][1].op = "load" /\ done[3][1].bef[1] = 0
  /\ done[3][1].ret = done[1][1].a
  /\ done[2][1].op = "cmpxchg" /\ done[2][1].bef[1] = 0 /\ done[2][1].bef[3] = 0

----------------------------------------------------------------------------
\* add by one caller, at the edges of the 32-bit range.

AddValues ==
  {<<0, 0, 0, 0>>, <<1, 0, 0, 0>>, <<255, 0, 0, 0>>, <<255, 255, 0, 0>>,
   <<255, 255, 255, 127>>, <<0, 0, 0, 128>>, <<255, 255, 255, 255>>}

InitAddSeq ==
  \E wide \in BOOLEAN, v0 \in AddValues :
    InitWith(wide, MemWith(v0 \o <<9, 9, 9, 9>>),
             Alone({[op |-> "add", w |-> 4, a |-> d, c |-> NoValue, dest |-> Slot] :
                      d \in AddValues}),
             AloneLeft)

SpecAddSeq == InitAddSeq /\ [][Next]_vars

\* (a + b) mod 2^32 of two 4-byte values, computed on 16-bit halves.
ModAdd32(a, b) ==
  LET lo == (a[1] + 256 * a[2]) + (b[1] + 256 * b[2])
      hi == (a[3] + 256 * a[4]) + (b[3] + 256 * b[4]) + (lo \div 65536)
  IN <<(lo % 65536) % 256, (lo % 65536) \div 256,
       (hi % 65536) % 256, (hi % 65536) \div 256>>

\* C6: a single add(d, dest) on a 4-byte slot holding v0 returns
\* (v0 + d) mod 2^32 and leaves that value in the slot, also when v0 + d
\* leaves the signed 32-bit range.
AddPostcondition ==
  \A tk \in Returned :
    LET r == Rec(tk)
    IN r.op = "add" =>
         /\ r.ret = ModAdd32(r.pre, r.a)
         /\ r.post = ModAdd32(r.pre, r.a)

\* C6 happens: in the !AMD64 build add(1) on 0x7fffffff returned 0x80000000,
\* and add(0x80000000) on that returned 0.
AddWrapped ==
  /\ ~amd64
  /\ Len(done[1]) = 2
  /\ done[1][1].pre = <<255, 255, 255, 127>> /\ done[1][1].a = <<1, 0, 0, 0>>
  /\ done[1][1].ret = <<0, 0, 0, 128>>
  /\ done[1][2].a = <<0, 0, 0, 128>>
  /\ done[1][2].ret = <<0, 0, 0, 0>> /\ done[1][2].post = <<0, 0, 0, 0>>

----------------------------------------------------------------------------
\* store then load by one caller.

StoreValues(w) ==
  IF w = 1 THEN {<<17>>, <<128>>, <<255>>}
  ELSE IF w = 4 THEN {<<68, 51, 34, 17>>, <<0, 0, 0, 128>>, <<255, 255, 255, 255>>}
  ELSE {<<136, 119, 102, 85, 68, 51, 34, 17>>, <<0, 0, 0, 0, 0, 0, 0, 128>>,
        <<255, 255, 255, 255, 255, 255, 255, 255>>, <<255, 255, 255, 255, 255, 255, 255, 127>>,
        <<1, 0, 0, 0, 0, 0, 240, 127>>, <<1, 0, 0, 0, 0, 0, 0, 0>>}

\* The value the non-volatile and the pointer overloads are tried with.
PlainValue(w) == [i \in 1..w |-> 16 * i + i]

StoreLoadCalls(wide) ==
  {[op |-> "store", w |-> w, a |-> v, c |-> NoValue, dest |-> Slot] :
     w \in {1}, v \in StoreValues(1)}
  \cup {[op |-> "store", w |-> w, a |-> v, c |-> NoValue, dest |-> Slot] :
     w \in {4}, v \in StoreValues(4)}
  \cup {[op |-> "store", w |-> w, a |-> v, c |-> NoValue, dest |-> Slot] :
     w \in {8}, v \in StoreValues(8)}
  \cup {[op |-> "store_plain", w |-> w, a |-> PlainValue(w), c |-> NoValue, dest |-> Slot] :
     w \in {1, 4, 8}}
  \cup {[op |-> "store_ptr", w |-> PtrWidth(wide), a |-> PlainValue(PtrWidth(wide)),
         c |-> NoValue, dest |-> Slot]}
  \cup {[op |-> "load", w |-> w, a |-> NoValue, c |-> NoValue, dest |-> Slot] :
     w \in {1, 4, 8}}

InitStoreLoad ==
  \E wide \in BOOLEAN :
    InitWith(wide, MemWith([i \in 1..8 |-> 170]), Alone(StoreLoadCalls(wide)), AloneLeft)

SpecStoreLoad == InitStoreLoad /\ [][Next]_vars

\* C7: a load that directly follows a store of the same width to the same
\* slot, by the only caller, returns the stored value bit for bit; this for
\* the widths 1, 4 and 8, every store overload, in both builds.
StoreLoadRoundTrip ==
  \A t \in Threads : \A i \in 1..(Len(done[t]) - 1) :
    (/\ done[t][i].op \in {"store", "store_plain", "store_ptr"}
     /\ done[t][i + 1].op = "load"
     /\ done[t][i + 1].w = done[t][i].w
     /\ done[t][i + 1].dest = done[t][i].dest)
    => done[t][i + 1].ret = done[t][i].a

\* C7 happens: in the !AMD64 build store(0x1122334455667788, dest) and then
\* load(dest), both through the x87 unit, gave back 0x1122334455667788.
JlongRoundTripped ==
  /\ ~amd64
  /\ Len(done[1]) = 2
  /\ done[1][1].op = "store" /\ done[1][1].w = 8
  /\ done[1][1].a = <<136, 119, 102, 85, 68, 51, 34, 17>>
  /\ done[1][2].op = "load" /\ done[1][2].w = 8
  /\ done[1][2].ret = <<136, 119, 102, 85, 68, 51, 34, 17>>
  /\ done[1][1].accs = 1 /\ done[1][2].accs = 1

----------------------------------------------------------------------------
\* xchg and xchg_ptr by one caller.

XchgValues(w) ==
  IF w = 4 THEN {<<16, 32, 64, 0>>, <<32, 64, 128, 0>>, <<255, 255, 255, 255>>}
  ELSE {<<16, 32, 64, 0, 1, 0, 0, 0>>, <<32, 64, 128, 0, 2, 0, 0, 0>>,
        <<255, 255, 255, 255, 255, 255, 255, 255>>}

XchgCalls(wide) ==
  {[op |-> "xchg", w |-> 4, a |-> n, c |-> NoValue, dest |-> Slot] : n \in XchgValues(4)}
  \cup {[op |-> "xchg_ptr", w |-> PtrWidth(wide), a |-> n, c |-> NoValue, dest |-> Slot] :
          n \in XchgValues(PtrWidth(wide))}

InitXchg ==
  \E wide \in BOOLEAN, p \in XchgValues(8) :
    InitWith(wide, MemWith(p), Alone(XchgCalls(wide)), AloneLeft)

SpecXchg == InitXchg /\ [][Next]_vars

\* C9: xchg(n, dest) by a lone caller returns the value the slot held before
\* the call and leaves n in the slot; so do the xchg_ptr overloads at the
\* pointer width of the build; in both builds.
XchgPostcondition ==
  \A tk \in Returned :
    LET r == Rec(tk)
    IN r.op \in {"xchg", "xchg_ptr"} => r.ret = r.pre /\ r.post = r.a

\* C9 happens: in the !AMD64 build xchg_ptr(B, dest) on a slot holding the
\* address A returned A and left B.
XchgPtrReturnedOld ==
  /\ ~amd64
  /\ done[1] # <<>>
  /\ done[1][1].op = "xchg_ptr"
  /\ done[1][1].pre = <<16, 32, 64, 0>>
  /\ done[1][1].a = <<32, 64, 128, 0>>
  /\ done[1][1].ret = <<16, 32, 64, 0>>
  /\ done[1][1].post = <<32, 64, 128, 0>>

----------------------------------------------------------------------------
\* inc and dec among other callers of the slot.

IncDecOps == {"inc", "inc_ptr", "dec", "dec_ptr"}

IncDecValues ==
  {<<255, 255, 255, 255, 0, 0, 0, 0>>, <<255, 255, 255, 127, 1, 0, 0, 0>>,
   <<0, 0, 0, 128, 255, 255, 255, 255>>}

IncDecMenu(wide, t) ==
  IF t = 1
    THEN {[op |-> o, w |-> 4, a |-> NoValue, c |-> NoValue, dest |-> Slot] :
            o \in {"inc", "dec"}}
         \cup {[op |-> o, w |-> PtrWidth(wide), a |-> NoValue, c |-> NoValue, dest |-> Slot] :
            o \in {"inc_ptr", "dec_ptr"}}
  ELSE IF t = 2
    THEN {[op |-> "add", w |-> 4, a |-> <<5, 0, 0, 0>>, c |-> NoValue, dest |-> Slot],
          [op |-> "xchg", w |-> 4, a |-> <<7, 0, 0, 0>>, c |-> NoValue, dest |-> Slot]}
  ELSE {}

InitIncDec ==
  \E wide \in BOOLEAN, v0 \in IncDecValues :
    InitWith(wide, MemWith(v0), [t \in Threads |-> IncDecMenu(wide, t)],
             [t \in Threads |-> IF t = 1 THEN MaxCalls ELSE IF t = 2 THEN 1 ELSE 0])

SpecIncDec == InitIncDec /\ [][Next]_vars

\* The machine after the listing has run from s without anyone in between
\* (n is the machine after the first instruction, worked out once).
RECURSIVE RunAlone(_, _)
RunAlone(s, code) ==
  IF code = <<>> THEN s
  ELSE CHOOSE r \in {RunAlone(n, Tail(code)) : n \in {Exec(s, Head(code))}} : TRUE

\* The add that an inc or dec is said to be: add(1, dest) or add(-1, dest) of
\* the jint width, add_ptr of the pointer width.
AddFor(c) ==
  [op |-> "add", w |-> c.w, c |-> NoValue, dest |-> c.dest,
   a |-> IF c.op \in {"inc", "inc_ptr"} THEN One(c.w) ELSE Ones(c.w)]

\* The heap as that add, entered by thread t now and run alone, would leave it.
HeapAfterAdd(t) ==
  LET c == AddFor(cur[t])
      s == [m |-> mem, r |-> Regs0(t), l |-> Params(c), k |-> <<>>, f |-> <<>>,
            fp |-> FrameBase(t)]
  IN Rd(RunAlone(s, Code(c)).m, 0, 16)

\* C8: inc(dest) is add(1, dest) with the result dropped and dec(dest) is
\* add(-1, dest) with the result dropped, also the _ptr overloads: like the
\* add, the call makes exactly one access to the slot, that access leaves the
\* heap as the add run at that instant would, its other steps leave the heap
\* alone, and nothing is returned; whatever the slot holds and whoever else
\* is at work on it.
IncDecIsAdd ==
  /\ [](\A tk \in Returned :
          Rec(tk).op \in IncDecOps \cup {"add"} =>
            /\ Rec(tk).accs = 1
            /\ Rec(tk).op \in IncDecOps => Rec(tk).ret = NoValue)
  /\ [][\A t \in Threads :
          (pc[t] > 0 /\ pc'[t] = pc[t] + 1 /\ cur[t].op \in IncDecOps) =>
            IF cur'[t].accs = cur[t].accs + 1
              THEN Rd(mem', 0, 16) = HeapAfterAdd(t)
              ELSE Rd(mem', 0, 16) = Rd(mem, 0, 16)]_vars

\* C8 happens: in the !AMD64 build an inc_ptr took the slot from 0xffffffff
\* to 0 and a dec took it back across the boundary, the add of another thread
\* falling between that access of the dec and its return.
IncDecAcrossBoundary ==
  /\ ~amd64
  /\ Len(done[1]) >= 2
  /\ done[1][1].op = "inc_ptr" /\ done[1][1].pre = <<255, 255, 255, 255>>
  /\ done[1][1].post = <<0, 0, 0, 0>>
  /\ done[1][2].op = "dec" /\ done[1][2].pre = <<0, 0, 0, 0>>
  /\ done[1][2].post = <<4, 0, 0, 0>>
  /\ done[2] # <<>> /\ done[2][1].op = "add" /\ done[2][1].ret = <<4, 0, 0, 0>>

----------------------------------------------------------------------------
\* Every operation racing on one slot in the !AMD64 build.

LinMenu(t) ==
  LET call(op, a, c) == [op |-> op, w |-> 4, a |-> a, c |-> c, dest |-> Slot]
  IN IF t = 1 THEN {call("store", <<20, 0, 0, 0>>, NoValue),
                    call("xchg", <<30, 0, 0, 0>>, NoValue),
                    call("inc", NoValue, NoValue)}
     ELSE IF t = 2 THEN {call("add", <<246, 255, 255, 255>>, NoValue),
                         call("cmpxchg", <<40, 0, 0, 0>>, <<10, 0, 0, 0>>),
                         call("cmpxchg", <<50, 0, 0, 0>>, <<20, 0, 0, 0>>),
                         call("dec", NoValue, NoValue)}
     ELSE IF t = 3 THEN {call("load", NoValue, NoValue)}
     ELSE {}

\* Threads 1 and 2 make one call each and thread 3 loads twice; or the
\* 8-byte calls of the workload above.
InitLin ==
  \/ InitWith(FALSE, MemWith(<<10, 0, 0, 0, 9, 9, 9, 9>>),
              [t \in Threads |-> LinMenu(t)],
              [t \in Threads |-> IF t = 3 THEN 2 ELSE IF t < 3 THEN 1 ELSE 0])
  \/ InitJlong

SpecLin == InitLin /\ [][Next]_vars

\* The sequential specification: the slot after the operation r on a slot
\* holding v, and what r returns.
SeqSlot(v, r) ==
  CASE r.op \in {"store", "store_plain", "store_ptr", "xchg", "xchg_ptr"} -> r.a
    [] r.op = "add" -> ModAdd32(v, r.a)
    [] r.op \in {"inc", "inc_ptr"} -> ModAdd32(v, <<1, 0, 0, 0>>)
    [] r.op \in {"dec", "dec_ptr"} -> ModAdd32(v, <<255, 255, 255, 255>>)
    [] r.op = "cmpxchg" -> (IF v = r.c THEN r.a ELSE v)
    [] OTHER -> v

SeqRet(v, r) ==
  CASE r.op \in {"load", "xchg", "xchg_ptr", "cmpxchg"} -> v
    [] r.op = "add" -> ModAdd32(v, r.a)
    [] OTHER -> NoValue

\* The call y had returned when the call x was made.
Precedes(y, x) == Rec(x).bef[y[1]] >= y[2]

\* The calls in rest can be put one after the other, from a slot holding v,
\* each after every call that had returned before it was made, so that each
\* returns what it did return and the slot ends as it is.
RECURSIVE CanLinearize(_, _)
CanLinearize(v, rest) ==
  IF rest = {} THEN v = Rd(mem, Slot, Len(v))
  ELSE \E x \in rest :
         /\ \A y \in rest \ {x} : ~Precedes(y, x)
         /\ SeqRet(v, Rec(x)) = Rec(x).ret
         /\ CanLinearize(SeqSlot(v, Rec(x)), rest \ {x})

\* C5: whenever no call is under way, the calls made so far on the slot
\* (store, load, add, inc, dec, xchg, cmpxchg) have a total order that keeps
\* every call after the calls that returned before it was made and under
\* which the sequential specification gives every value returned and the
\* slot as it is now.
Linearizable ==
  (Returned # {} /\ \A t \in Threads : pc[t] = 0)
    => CanLinearize(Rd(mem0, Slot, Rec(CHOOSE x \in Returned : TRUE).w), Returned)

\* C5 happens: calls on the 4-byte slot, none returned before another was
\* made, took effect in an order that is not the order of the threads: the
\* first load of thread 3 came before the store of thread 1, the cmpxchg of
\* thread 2 saw that store, and the second load of thread 3 saw the cmpxchg.
LinearizedOutOfThreadOrder ==
  /\ \A t \in 1..3 : done[t] # <<>> /\ \A u \in Threads : done[t][1].bef[u] = 0
  /\ done[1][1].op = "store"
  /\ done[2][1].op = "cmpxchg" /\ done[2][1].ret = <<20, 0, 0, 0>>
  /\ Len(done[3]) = 2
  /\ done[3][1].ret = <<10, 0, 0, 0>>
  /\ done[3][2].ret = <<50, 0, 0, 0>>

----------------------------------------------------------------------------
\* Completion: thread 1 makes one call of any kind while thread 2 exchanges
\* on the same slot and may stop anywhere.

LiveMenu(wide, t) ==
  LET call(op, w, a, c) == [op |-> op, w |-> w, a |-> a, c |-> c, dest |-> Slot]
      pw == PtrWidth(wide)
  IN IF t = 1
       THEN {call("store", w, SubSeq(Q(3), 1, w), NoValue) : w \in {1, 2, 4, 8}}
            \cup {call("store_plain", 8, Q(5), NoValue),
                  call("store_ptr", pw, PlainValue(pw), NoValue)}
            \cup {call("load", w, NoValue, NoValue) : w \in {1, 4, 8}}
            \cup {call("add", 4, <<5, 0, 0, 0>>, NoValue)}
            \cup {call(o, 4, NoValue, NoValue) : o \in {"inc", "dec"}}
            \cup {call(o, pw, NoValue, NoValue) : o \in {"inc_ptr", "dec_ptr"}}
            \cup {call("xchg", 4, PlainValue(4), NoValue),
                  call("xchg_ptr", pw, PlainValue(pw), NoValue)}
            \cup {call("cmpxchg", w, PlainValue(w), SubSeq(Q(1), 1, w)) : w \in {1, 4, 8}}
     ELSE IF t = 2
       THEN {call("xchg", 4, <<7, 7, 7, 7>>, NoValue)}
     ELSE {}

InitLive ==
  \E wide \in BOOLEAN :
    InitWith(wide, MemWith(Q(1)), [t \in Threads |-> LiveMenu(wide, t)],
             [t \in Threads |-> IF t <= 2 THEN 1 ELSE 0])

\* Thread 1 keeps running while it is inside a function; nothing is assumed
\* of the other threads.
SpecLive == InitLive /\ [][Next]_vars /\ WF_vars(Step(1) \/ Return(1))

\* The number of steps of each function, counted in its body: the asm
\* instructions and the C statements around them in the !AMD64 build, the
\* call through the os:: entry point (after the constant argument of inc and
\* dec) in the AMD64 build.
FixedSteps(c) ==
  IF amd64
    THEN (IF c.op \in IncDecOps THEN 2 ELSE 1)
    ELSE CASE c.op \in {"store", "store_plain"} -> (IF c.w = 8 THEN 5 ELSE 1)
           [] c.op = "store_ptr" -> 1
           [] c.op = "load" -> (IF c.w = 8 THEN 6 ELSE 1)
           [] c.op = "add" -> 5
           [] c.op \in IncDecOps -> 2
           [] c.op = "xchg" -> 3
           [] c.op = "xchg_ptr" -> 4
           [] c.op = "cmpxchg" -> (IF c.w = 8 THEN 14 ELSE 4)

\* C10: a call, once made, completes: it returns after the fixed number of
\* steps of its function, whatever the values and the other threads; at no
\* point inside a function does its next step wait for another thread; so if
\* the calling thread keeps running, every call it has made returns, also
\* when another thread has stopped in the middle of its own call.
AlwaysCompletes ==
  /\ [](\A tk \in Returned : Rec(tk).steps = FixedSteps(Rec(tk)))
  /\ [](\A t \in Threads :
          pc[t] > 0 => /\ cur[t].steps = pc[t] - 1
                       /\ cur[t].steps <= FixedSteps(cur[t])
                       /\ ENABLED (Step(t) \/ Return(t)))
  /\ (pc[1] > 0 ~> pc[1] = 0)

\* C10 happens: in the !AMD64 build the 8-byte cmpxchg of thread 1 has
\* returned while thread 2, which made its call before, is still between the
\* instructions of its xchg.
ReturnedPastStalledThread ==
  /\ ~amd64
  /\ done[1] # <<>>
  /\ done[1][1].op = "cmpxchg" /\ done[1][1].w = 8 /\ done[1][1].steps = 14
  /\ done[1][1].bef[2] = 0
  /\ pc[2] = 3 /\ cur[2].bef[1] = 0 /\ Len(done[2]) = 0

----------------------------------------------------------------------------
\* Neighbouring slots: thread 1 works on slot A, thread 2 on a slot B next
\* to it.

\* The heap filled with one byte value.
HeapOf(b) == [x \in MemAddrs |-> IF x \in HeapAddrs THEN b ELSE 0]

\* The calls of thread 1 on A and of thread 2 on B when A has w bytes: A is
\* the byte at 5, the word at 4 or the 8 bytes at 8; B is the byte at 6, the
\* word at 0 or the word at 4.  fill is the value every slot starts with.
NeighbourMenu(wide, w, fill, t) ==
  LET call(op, cw, a, c, d) == [op |-> op, w |-> cw, a |-> a, c |-> c, dest |-> d]
      f(n) == [i \in 1..n |-> fill]
      pw == PtrWidth(wide)
  IN IF t = 1 THEN
       (IF w = 1 THEN {call("cmpxchg", 1, <<17>>, f(1), 5), call("store", 1, <<17>>, NoValue, 5)}
        ELSE IF w = 4 THEN
          {call("add", 4, <<1, 0, 0, 0>>, NoValue, 4), call("add", 4, Ones(4), NoValue, 4),
           call("inc", 4, NoValue, NoValue, 4), call("dec", 4, NoValue, NoValue, 4),
           call("xchg", 4, <<17, 34, 51, 68>>, NoValue, 4),
           call("cmpxchg", 4, <<17, 34, 51, 68>>, f(4), 4)}
          \cup (IF wide THEN {}
                ELSE {call("inc_ptr", 4, NoValue, NoValue, 4),
                      call("dec_ptr", 4, NoValue, NoValue, 4),
                      call("xchg_ptr", 4, <<17, 34, 51, 68>>, NoValue, 4)})
        ELSE
          {call("cmpxchg", 8, Q(1), f(8), 8), call("store", 8, Q(1), NoValue, 8),
           call("load", 8, NoValue, NoValue, 8)}
          \cup (IF wide THEN {call("inc_ptr", 8, NoValue, NoValue, 8),
                              call("dec_ptr", 8, NoValue, NoValue, 8),
                              call("xchg_ptr", 8, Q(1), NoValue, 8)}
                ELSE {}))
     ELSE IF t = 2 THEN
       (IF w = 1 THEN {call("cmpxchg", 1, <<34>>, f(1), 6)}
        ELSE IF w = 4 THEN {call("add", 4, <<1, 0, 0, 0>>, NoValue, 0)}
        ELSE {call("xchg", 4, <<17, 34, 51, 68>>, NoValue, 4)})
     ELSE {}

InitNeighbours ==
  \E wide \in BOOLEAN, w \in {1, 4, 8}, fill \in {0, 255} :
    InitWith(wide, HeapOf(fill), [t \in Threads |-> NeighbourMenu(wide, w, fill, t)],
             [t \in Threads |-> IF t = 1 THEN 1 ELSE IF t = 2 THEN MaxCalls ELSE 0])

SpecNeighbours == InitNeighbours /\ [][Next]_vars

\* The addresses of the slot of the call c.
SlotOf(c) == c.dest..(c.dest + c.w - 1)

\* The addresses of the frame of thread t.
FrameOf(t) == FrameBase(t)..(FrameBase(t) + 15)

\* C11: a step of a call on slot A changes no byte of the heap outside the
\* w bytes of A and no byte of another thread's frame; and the calls of the
\* only caller of a neighbouring slot B return, and leave in B, what they
\* would if B were all there is: each finds B as its previous call left it
\* and acts on that by the sequential specification.
NoInterference ==
  /\ [][/\ \A a \in HeapAddrs :
             mem'[a] # mem[a] =>
               \E t \in Threads : pc[t] > 0 /\ pc'[t] = pc[t] + 1 /\ a \in SlotOf(cur[t])
        /\ \A t \in Threads : \A a \in FrameOf(t) :
             mem'[a] # mem[a] => pc'[t] # pc[t]]_vars
  /\ [](\A i \in 1..Len(done[2]) :
          LET r == done[2][i]
          IN /\ r.pre = IF i = 1 THEN Rd(mem0, r.dest, r.w) ELSE done[2][i - 1].post
             /\ r.ret = SeqRet(r.pre, r)
             /\ r.post = SeqSlot(r.pre, r))

\* C11 happens: in the !AMD64 build the 1-byte cmpxchg of thread 1 has put 17
\* in the byte at 5 while thread 2 was between two calls on the byte at 6,
\* and the bytes at 4 and 7 are as they were.
NeighboursUntouched ==
  /\ ~amd64
  /\ done[1] # <<>> /\ done[1][1].op = "cmpxchg" /\ done[1][1].w = 1
  /\ done[1][1].ret = <<255>> /\ done[1][1].bef[2] = 1
  /\ Len(done[2]) = 2 /\ done[2][2].bef[1] = 0
  /\ Rd(mem, 4, 4) = <<255, 17, 34, 255>>

----------------------------------------------------------------------------
\* cmpxchg with either order argument, one caller.

\* A value of w bytes whose lowest byte is b.
Low(b, w) == [i \in 1..w |-> IF i = 1 THEN b ELSE 0]

OrderCalls ==
  {[op |-> "cmpxchg", w |-> w, a |-> Low(20, w), c |-> Low(b, w), dest |-> Slot, order |-> o] :
     w \in {1, 4, 8}, b \in {0, 8}, o \in CmpxchgOrders}

InitOrder ==
  \E wide \in BOOLEAN, b \in {0, 8} :
    InitWith(wide, MemWith(Low(b, 8)), Alone(OrderCalls), AloneLeft)

SpecOrder == InitOrder /\ [][Next]_vars

\* What the cmpxchg thread t has just entered comes to with the order o in
\* place of its own: the instructions it runs, the heap they leave when run
\* without anyone in between, and the value returned.
OutcomeWith(t, o) ==
  LET c == [cur[t] EXCEPT !.order = o]
      s == RunAlone([Machine(t) EXCEPT !.l.order = o], Code(c))
  IN [code |-> Code(c), heap |-> Rd(s.m, 0, 16), ret |-> RetVal(c, s)]

\* C12: the order argument of cmpxchg changes nothing: at the entry of every
\* cmpxchg (any width, slot value, exchange and compare value, either build)
\* the other order gives the same instructions, the same slot and the same
\* returned value; those instructions hold one locked instruction or one call
\* of the entry point; and what a call returns and leaves is given by the
\* slot, the exchange value and the compare value alone.
OrderHasNoEffect ==
  /\ \A t \in Threads :
       (pc[t] = 1 /\ cur[t].op = "cmpxchg") =>
         /\ \A o \in CmpxchgOrders : OutcomeWith(t, o) = OutcomeWith(t, cur[t].order)
         /\ Cardinality({i \in 1..Len(Code(cur[t])) :
                           Code(cur[t])[i].op \in {"lock_cmpxchg", "lock_cmpxchg_b",
                                                   "lock_cmpxchg8b", "call"}}) = 1
  /\ \A tk \in Returned :
       Rec(tk).op = "cmpxchg" =>
         /\ Rec(tk).accs = 1
         /\ Rec(tk).ret = Rec(tk).pre
         /\ Rec(tk).post = (IF Rec(tk).pre = Rec(tk).c THEN Rec(tk).a ELSE Rec(tk).pre)

\* C12 happens: in the !AMD64 build the same 4-byte cmpxchg on a slot holding
\* 0 was made with memory_order_relaxed and then, after it had failed, with
\* memory_order_conservative, and failed again with the same result.
BothOrdersTried ==
  /\ ~amd64
  /\ Len(done[1]) = 2
  /\ \A i \in {1, 2} :
       /\ done[1][i].op = "cmpxchg" /\ done[1][i].w = 4
       /\ done[1][i].c = <<8, 0, 0, 0>>
       /\ done[1][i].ret = <<0, 0, 0, 0>> /\ done[1][i].post = <<0, 0, 0, 0>>
  /\ done[1][1].order = <<0, 0, 0, 0>>
  /\ done[1][2].order = <<8, 0, 0, 0>>

----------------------------------------------------------------------------
\* The 8-byte cmpxchg of the !AMD64 build, one caller, on values whose halves
\* match the slot separately.

\* The 8-byte value with low half lo, lo, lo, lo and high half hi, hi, hi, hi.
Halves(lo, hi) == <<lo, lo, lo, lo, hi, hi, hi, hi>>

Cas8Calls ==
  {[op |-> "cmpxchg", w |-> 8, a |-> e, c |-> c, dest |-> Slot] :
     e \in {Halves(3, 4), Halves(2, 1)},
     c \in {Halves(1, 2), Halves(1, 1), Halves(2, 2), Halves(2, 1), Halves(3, 4)}}

InitCas8 == InitWith(FALSE, MemWith(Halves(1, 2)), Alone(Cas8Calls), AloneLeft)

SpecCas8 == InitCas8 /\ [][Next]_vars

\* C13: the 8-byte cmpxchg of the !AMD64 build takes the two halves as one
\* value: the slot changes only when the low and the high half of the
\* compare value both equal those of the slot; it then gets the low half of
\* the exchange value as its low half and the high half as its high half;
\* and the value returned is what the slot held, high half and low half each
\* in its place.
Cmpxchg8WholeValue ==
  \A tk \in Returned :
    LET r == Rec(tk)
        match == Lo32(r.pre) = Lo32(r.c) /\ Hi32(r.pre) = Hi32(r.c)
    IN (~amd64 /\ r.op = "cmpxchg" /\ r.w = 8) =>
         /\ ~match => r.post = r.pre
         /\ match => Lo32(r.post) = Lo32(r.a) /\ Hi32(r.post) = Hi32(r.a)
         /\ Lo32(r.ret) = Lo32(r.pre) /\ Hi32(r.ret) = Hi32(r.pre)
         /\ Len(r.ret) = 8

\* C13 happens: on a slot holding 2:1 (high:low) a cmpxchg whose compare
\* value matched the low half only left it alone, and the next, matching
\* both, put 4:3 there and returned 2:1.
HalfMatchThenFullMatch ==
  /\ Len(done[1]) = 2
  /\ done[1][1].c = Halves(1, 1) /\ done[1][1].post = Halves(1, 2)
  /\ done[1][2].c = Halves(1, 2) /\ done[1][2].a = Halves(3, 4)
  /\ done[1][2].ret = Halves(1, 2) /\ done[1][2].post = Halves(3, 4)

\* C14: the 8-byte cmpxchg of the !AMD64 build gives ebx, edi and the stack
\* back as it got them: between calls every thread has the ebx and edi it
\* started with and an empty stack, and so it has once the last instruction
\* of the cmpxchg has run, whether the compare succeeded or failed; inside
\* the call the stack holds the saved ebx and, above it, the saved edi.
CalleeSavedKept ==
  \A t \in Threads :
    /\ (pc[t] = 0 \/ pc[t] = Len(Code(cur[t])) + 1) =>
         /\ reg[t].ebx = Regs0(t).ebx
         /\ reg[t].edi = Regs0(t).edi
         /\ stk[t] = <<>>
    /\ stk[t] \in {<<>>, <<Regs0(t).ebx>>, <<Regs0(t).ebx, Regs0(t).edi>>}

\* C14 happens: a cmpxchg that failed and one that succeeded have both
\* returned, and the second is back at its return with ebx and edi restored
\* after both had held other values.
RestoredAfterBothOutcomes ==
  /\ Len(done[1]) = 1 /\ done[1][1].post = done[1][1].pre /\ done[1][1].ret # done[1][1].c
  /\ pc[1] = Len(PlatformCmpxchg8) + 1
  /\ cur[1].op = "cmpxchg" /\ cur[1].pre = cur[1].c /\ Rd(mem, Slot, 8) = cur[1].a
  /\ cur[1].a # cur[1].c
  /\ reg[1].ecx = Hi32(cur[1].a)
  /\ reg[1].ebx = Regs0(1).ebx /\ reg[1].edi = Regs0(1).edi /\ stk[1] = <<>>

----------------------------------------------------------------------------
\* Every add, inc, dec, xchg and cmpxchg entry point, one caller.

RmwCalls(wide) ==
  LET call(op, w, a, c) == [op |-> op, w |-> w, a |-> a, c |-> c, dest |-> Slot]
      pw == PtrWidth(wide)
  IN {call("add", 4, <<5, 0, 0, 0>>, NoValue), call("xchg", 4, <<7, 0, 0, 0>>, NoValue),
      call("xchg_ptr", pw, Low(7, pw), NoValue),
      call("inc", 4, NoValue, NoValue), call("dec", 4, NoValue, NoValue),
      call("inc_ptr", pw, NoValue, NoValue), call("dec_ptr", pw, NoValue, NoValue)}
     \cup {call("cmpxchg", w, Low(20, w), Low(b, w)) : w \in {1, 4, 8}, b \in {0, 8}}
     \cup (IF wide THEN {call("add", 8, Low(5, 8), NoValue)} ELSE {})

InitRmw ==
  \E wide \in BOOLEAN :
    InitWith(wide, MemWith(Low(8, 8)), Alone(RmwCalls(wide)), AloneLeft)

SpecRmw == InitRmw /\ [][Next]_vars

\* The locked read-modify-write instructions.
LockedOps ==
  {"lock_xadd", "lock_add", "lock_sub", "xchg", "lock_cmpxchg", "lock_cmpxchg_b",
   "lock_cmpxchg8b"}

\* The instructions that read and write registers only.
RegisterOps == {"mov_rr", "add_rr"}

\* The entry point that goes with a call in the AMD64 build.
EntryPoint(c) ==
  CASE c.op = "add" -> (IF c.w = 8 THEN "atomic_add_ptr_func" ELSE "atomic_add_func")
    [] c.op \in {"inc", "dec"} -> "atomic_add_func"
    [] c.op \in {"inc_ptr", "dec_ptr"} -> "atomic_add_ptr_func"
    [] c.op = "xchg" -> "atomic_xchg_func"
    [] c.op = "xchg_ptr" -> "atomic_xchg_ptr_func"
    [] c.op = "cmpxchg" -> (IF c.w = 1 THEN "atomic_cmpxchg_byte_func"
                            ELSE IF c.w = 4 THEN "atomic_cmpxchg_func"
                            ELSE "atomic_cmpxchg_long_func")

\* One access per call, where after is the set of instructions allowed to
\* follow it: the instruction that touches the heap is the first to do so,
\* addresses dest, and is a locked instruction (!AMD64) or the call of the
\* entry point of the operand's width, the last step before the return
\* (AMD64); what runs after the access is in after; a returned call has made
\* one access.
OneAccess(after) ==
  /\ \A t \in Threads :
       (pc[t] > 0 /\ pc[t] <= Len(Code(cur[t]))) =>
         LET ins == Code(cur[t])[pc[t]]
         IN /\ TouchesHeap(Machine(t), ins) =>
                 /\ cur[t].accs = 0
                 /\ IF amd64
                      THEN /\ ins.op = "call" /\ ins.fn = EntryPoint(cur[t])
                           /\ ins.w = cur[t].w
                           /\ AddrOf(loc[t].dest) = cur[t].dest
                           /\ pc[t] = Len(Code(cur[t]))
                      ELSE /\ ins.op \in LockedOps
                           /\ AddrOf(reg[t][ins.base]) = cur[t].dest
            /\ cur[t].accs > 0 => ins.op \in after
  /\ \A tk \in Returned : Rec(tk).accs = 1

\* C15 as stated: after the one locked instruction only registers are worked
\* on.  The 8-byte cmpxchg of the !AMD64 build does not do that: pop edi and
\* pop ebx follow lock cmpxchg8b and read the stack.
OneAccessThenRegistersOnly == OneAccess(RegisterOps)

\* C15: every add, inc, dec, xchg and cmpxchg entry point makes exactly one
\* access to the slot per call: in the !AMD64 build one locked instruction on
\* dest, after which dest is not touched again and only registers are worked
\* on, but for the two pops that restore edi and ebx from the stack after
\* lock cmpxchg8b; in the AMD64 build one call of the entry point for the
\* operation and width, as the last step.
OneAccessPerCall == OneAccess(RegisterOps \cup {"pop"})

\* C15 happens: in the !AMD64 build the 8-byte cmpxchg has run its lock
\* cmpxchg8b and is about to pop edi from the stack.
PopAfterLockedInstruction ==
  /\ ~amd64
  /\ pc[1] > 0 /\ cur[1].op = "cmpxchg" /\ cur[1].w = 8
  /\ cur[1].accs = 1
  /\ Code(cur[1])[pc[1]] = [op |-> "pop", dst |-> "edi"]
  /\ Len(stk[1]) = 2

----------------------------------------------------------------------------
\* What concurrent add(1, dest) calls return (the workload of SpecAdd).

\* C16: in the !AMD64 build every add returns the value the slot held right
\* after its own addition: the values returned so far by the add(1, dest)
\* calls on a slot that started at 0 are pairwise distinct, and once the N
\* callers have all returned they are exactly 1, ..., N; in every
\* interleaving, also when other adds run between the lock xadd of a call
\* and its add eax, ecx.
AddReturnsOwnSum ==
  ~amd64 =>
    /\ \A t, u \in Callers : t # u => done[t][1].ret # done[u][1].ret
    /\ \A t \in Callers : \E i \in 1..NThreads : done[t][1].ret = Num(i, 4)
    /\ AllQuiet =>
         {done[t][1].ret : t \in Callers} = {Num(i, 4) : i \in 1..Cardinality(Callers)}

\* C16 happens: thread 1 has fetched 0 with its lock xadd and has its add
\* eax, ecx still to run, while every other thread has added and returned
\* and the slot holds the number of threads.
OthersAddedBeforeRegisterAdd ==
  /\ ~amd64
  /\ pc[1] = Len(PlatformAdd4) /\ cur[1].accs = 1
  /\ reg[1].eax = Zeros(4)
  /\ \A t \in Threads \ {1} : done[t] # <<>> /\ pc[t] = 0
  /\ Rd(mem, Slot, 4) = Num(NThreads, 4)

----------------------------------------------------------------------------
\* Concurrent exchanges on one slot.

\* Thread 1 exchanges up to MaxCalls times, threads 2 and 3 once each; all
\* with xchg on 4 bytes or all with xchg_ptr on a pointer.  Values repeat:
\* thread 2 writes what the slot starts with, thread 3 what thread 1 writes.
XchgRaceMenu(op, w, t) ==
  LET call(n) == [op |-> op, w |-> w, a |-> Low(n, w), c |-> NoValue, dest |-> Slot]
  IN IF t \in {1, 3} THEN {call(20)}
     ELSE IF t = 2 THEN {call(10)}
     ELSE {}

InitXchgRace ==
  \E wide \in BOOLEAN, op \in {"xchg", "xchg_ptr"} :
    LET w == IF op = "xchg" THEN 4 ELSE PtrWidth(wide)
    IN InitWith(wide, MemWith(Low(10, w) \o [i \in 1..(8 - w) |-> 9]),
                [t \in Threads |-> XchgRaceMenu(op, w, t)],
                [t \in Threads |-> IF t = 1 THEN MaxCalls ELSE IF t <= 3 THEN 1 ELSE 0])

SpecXchgRace == InitXchgRace /\ [][Next]_vars

\* How many of the returned calls returned x, and how many wrote x.
ReturnedCount(x) == Cardinality({tk \in Returned : Rec(tk).ret = x})
WrittenCount(x) == Cardinality({tk \in Returned : Rec(tk).a = x})

\* C17: whenever no exchange is under way, the values returned by the
\* exchanges made so far together with the value in the slot are, counted
\* with their repetitions, the values written together with the value the
\* slot started with: none is lost and none is handed out twice; in both
\* builds, for xchg and for xchg_ptr.
ExchangesConserveValues ==
  (Returned # {} /\ \A t \in Threads : pc[t] = 0) =>
    LET w == Rec(CHOOSE tk \in Returned : TRUE).w
        v0 == Rd(mem0, Slot, w)
        now == Rd(mem, Slot, w)
    IN \A x \in {v0, now} \cup {Rec(tk).a : tk \in Returned}
                \cup {Rec(tk).ret : tk \in Returned} :
         ReturnedCount(x) + (IF now = x THEN 1 ELSE 0)
           = WrittenCount(x) + (IF v0 = x THEN 1 ELSE 0)

\* C17 happens: in the !AMD64 build three threads exchanged at once on a slot
\* holding 10, two of them writing 20 and one 10; the first 10 came back to
\* thread 3, the 20 of thread 3 to thread 1 and the 20 of thread 1 to thread
\* 2, whose 10 is in the slot.
ExchangedInACircle ==
  /\ ~amd64
  /\ \A t \in 1..3 : Len(done[t]) = 1 /\ done[t][1].op = "xchg"
                     /\ \A u \in Threads : done[t][1].bef[u] = 0
  /\ done[3][1].ret = <<10, 0, 0, 0>>
  /\ done[1][1].ret = <<20, 0, 0, 0>>
  /\ done[2][1].ret = <<20, 0, 0, 0>>
  /\ Rd(mem, Slot, 4) = <<10, 0, 0, 0>>

----------------------------------------------------------------------------
\* The two builds side by side, on the operations both have at the same
\* width.

BuildsMenu(t) ==
  LET call(op, w, a, c) == [op |-> op, w |-> w, a |-> a, c |-> c, dest |-> Slot]
  IN IF t = 1
       THEN {call("add", 4, <<250, 255, 255, 255>>, NoValue),
             call("inc", 4, NoValue, NoValue), call("dec", 4, NoValue, NoValue),
             call("xchg", 4, <<7, 0, 0, 0>>, NoValue),
             call("store", 8, Q(3), NoValue),
             call("store", 8, <<0, 0, 0, 0, 0, 0, 0, 128>>, NoValue),
             call("load", 8, NoValue, NoValue)}
            \cup {call("cmpxchg", w, Low(20, w), Low(b, w)) : w \in {1, 4, 8}, b \in {7, 8}}
     ELSE IF t = 2
       THEN {call("xchg", 4, <<7, 0, 0, 0>>, NoValue),
             call("cmpxchg", 8, Low(8, 8), Low(7, 8))}
     ELSE {}

InitBuilds ==
  \E wide \in BOOLEAN :
    InitWith(wide, MemWith(Low(8, 8)), [t \in Threads |-> BuildsMenu(t)],
             [t \in Threads |-> IF t = 1 THEN 1 ELSE IF t = 2 THEN MaxCalls ELSE 0])

SpecBuilds == InitBuilds /\ [][Next]_vars

\* What the call of thread t comes to in the other build when entered now
\* and run with no one in between: the heap it leaves and what it returns.
InOtherBuild(t) ==
  LET c == cur[t]
      m == IF StoreValueInFrameIn(~amd64, c) THEN Wr(mem, FrameBase(t), c.a) ELSE mem
      s == RunAlone([m |-> m, r |-> Regs0(t), l |-> Params(c), k |-> <<>>, f |-> <<>>,
                     fp |-> FrameBase(t)],
                    CodeIn(~amd64, c))
  IN [heap |-> Rd(s.m, 0, 16), ret |-> RetValIn(~amd64, c, s)]

\* What the call of thread t is going to return if the rest of its body runs
\* from here.
GoingToReturn(t) ==
  RetVal(cur[t], RunAlone(Machine(t), SubSeq(Code(cur[t]), pc[t], Len(Code(cur[t])))))

\* C18: the builds agree call by call.  Every call makes one access to the
\* heap; that access leaves the heap as the whole body of the other build
\* would leave it at that instant, and fixes the value the call is going to
\* return as the value the other build would return; no later step, of this
\* thread or another, changes that value.  So every interleaving of one
\* build is matched, access by access, by the other, with the same values
\* returned and the same slot.
BuildsAgree ==
  /\ [](\A tk \in Returned : Rec(tk).accs = 1)
  /\ [][\A t \in Threads :
          (pc[t] > 0 /\ pc'[t] > 0) =>
            IF cur'[t].accs = cur[t].accs + 1
              THEN /\ Rd(mem', 0, 16) = InOtherBuild(t).heap
                   /\ GoingToReturn(t)' = InOtherBuild(t).ret
              ELSE cur[t].accs = 1 => GoingToReturn(t)' = GoingToReturn(t)]_vars

\* C18 happens: the 8-byte cmpxchg of thread 1 has succeeded on a slot that
\* the xchg of thread 2 had set to 7 while thread 1 was inside the call, and
\* has returned 7, in the !AMD64 build (in the AMD64 build likewise, by the
\* entry point).
SameOutcomeUnderRace ==
  /\ ~amd64
  /\ done[1] # <<>> /\ done[1][1].op = "cmpxchg" /\ done[1][1].w = 8
  /\ done[1][1].pre = Low(8, 8) /\ done[1][1].c = Low(7, 8)
  /\ done[1][1].ret = Low(7, 8) /\ done[1][1].post = Low(20, 8)
  /\ done[2] # <<>> /\ done[2][1].op = "xchg"

====
